---- MODULE Spec2Model ----
(***************************************************************************)
(* Stitch plan synthesis service (src/apps/ai/main.py): polyline and SVG   *)
(* path synthesis, the DST codec boundary and the greedy group optimizer.  *)
(*                                                                         *)
(* Numbers.  The program computes in floating point; the model computes    *)
(* the same expressions exactly, in fixed point:                           *)
(*   - lengths and coordinates are whole numbers of units, UnitsPerPx      *)
(*     units to the pixel;                                                  *)
(*   - millimetre quantities and the density are in hundredths.            *)
(* The requests enumerated are those for which every quotient the handler  *)
(* forms is a whole number of units, and polylines have axis-parallel      *)
(* segments (math.hypot is then exact).                                    *)
(* The optimize-path statistics alone keep the rounding of the floats, as  *)
(* their value depends on it (see calculate_total_length).                 *)
(***************************************************************************)
EXTENDS Integers, Sequences, FiniteSets, TLC

VARIABLES hasPyembroidery, hasSvgpathtools, pc, op, req, status, body, points, info, dst, optimized,
          kind, stats

vars ==
    <<hasPyembroidery, hasSvgpathtools, pc, op, req, status, body, points, info, dst, optimized,
      kind, stats>>

\* 1 px = 26 units: the default mm_per_px is 26 hundredths of a millimetre,
\* so stitch_len_mm / mm_per_px is a whole number of units.
UnitsPerPx == 26

\* hundredths in one whole (0.25 is 25, 1.0 is 100)
Hundred == 100

\* longest polyline of a generate_from_points request
MaxPts == 3

\* most paths in the SVG of a generate request
MaxPaths == 2

\* most points of an export_from_points request
MaxExportPts == 2

\* most records in an uploaded machine file
MaxRecords == 2

\* most stitch groups of an optimize-path request
MaxGroups == 3

Abs(n) == IF n < 0 THEN -n ELSE n

Max(a, b) == IF a >= b THEN a ELSE b

Sign(n) == IF n > 0 THEN 1 ELSE IF n < 0 THEN -1 ELSE 0

Px(n) == n * UnitsPerPx

(***************************************************************************)
(* Pattern parameters -> pixel space                                       *)
(***************************************************************************)

\* req.stitch_len_mm / req.mm_per_px if req.mm_per_px > 0 else req.stitch_len_mm
MmToPx(mm, mm_per_px) ==
    IF mm_per_px > 0 THEN (mm * UnitsPerPx) \div mm_per_px
                     ELSE (mm * UnitsPerPx) \div Hundred

\* the quotient of MmToPx is a whole number of units
MmToPxExact(mm, mm_per_px) ==
    IF mm_per_px > 0 THEN (mm * UnitsPerPx) % mm_per_px = 0
                     ELSE (mm * UnitsPerPx) % Hundred = 0

\* stitch_len_px of generate_from_points: divided by max(0.25, density) only
\* when density > 0
StitchLenPx(stitch_len_mm, mm_per_px, density) ==
    LET base == MmToPx(stitch_len_mm, mm_per_px)
    IN  IF density > 0 THEN (base * Hundred) \div Max(25, density) ELSE base

StitchLenExact(stitch_len_mm, mm_per_px, density) ==
    /\ MmToPxExact(stitch_len_mm, mm_per_px)
    /\ density > 0 => (MmToPx(stitch_len_mm, mm_per_px) * Hundred) % Max(25, density) = 0

\* a floor of half a pixel, the one sample_path uses
SpacingPxHalfPixel(stitch_len_px) == Max(Px(1) \div 2, stitch_len_px)

\* spacing handed to resample_polyline: max(1.0, stitch_len_px)
SpacingPx(stitch_len_px) == Max(Px(1), stitch_len_px)

(***************************************************************************)
(* resample_polyline                                                       *)
(***************************************************************************)

\* math.hypot(dx, dy) of an axis-parallel segment
Hypot(dx, dy) == Abs(dx) + Abs(dy)

AxisParallel(pts) ==
    \A i \in 2..Len(pts) : pts[i].x = pts[i-1].x \/ pts[i].y = pts[i-1].y

RECURSIVE EmitAlongSegmentStale(_, _, _, _, _, _, _, _)
\* the loop with the sample taken before acc is advanced
EmitAlongSegmentStale(acc, spacing, seg_len, x0, y0, ux, uy, out) ==
    IF acc + spacing <= seg_len
    THEN EmitAlongSegmentStale(acc + spacing, spacing, seg_len, x0, y0, ux, uy,
             Append(out, [x |-> x0 + ux * acc, y |-> y0 + uy * acc]))
    ELSE [acc |-> acc, out |-> out]

RECURSIVE EmitAlongSegment(_, _, _, _, _, _, _, _)
\* while acc + spacing <= seg_len: acc += spacing; out.append(p0 + u*acc)
EmitAlongSegment(acc, spacing, seg_len, x0, y0, ux, uy, out) ==
    IF acc + spacing <= seg_len
    THEN EmitAlongSegment(acc + spacing, spacing, seg_len, x0, y0, ux, uy,
             Append(out, [x |-> x0 + ux * (acc + spacing), y |-> y0 + uy * (acc + spacing)]))
    ELSE [acc |-> acc, out |-> out]

\* the remainder threaded into the next segment: acc = (acc + seg_len) % spacing
CarryAcc(acc, seg_len, spacing) == (acc + seg_len) % spacing

RECURSIVE WalkSegments(_, _, _, _, _)
\* for i in range(1, len(points)): ...   (i is 1-based here: segment i-1 -> i)
WalkSegments(pts, spacing, i, acc, out) ==
    IF i > Len(pts) THEN out
    ELSE LET x0 == pts[i-1].x
             y0 == pts[i-1].y
             dx == pts[i].x - x0
             dy == pts[i].y - y0
             seg_len == Hypot(dx, dy)
         IN  IF seg_len <= UnitsPerPx \div 1000000      \* seg_len <= 1e-6 (px), whole units
             THEN WalkSegments(pts, spacing, i + 1, acc, out)
             ELSE LET r == EmitAlongSegment(acc, spacing, seg_len, x0, y0,
                                            dx \div seg_len, dy \div seg_len, out)
                  IN  WalkSegments(pts, spacing, i + 1,
                                   CarryAcc(r.acc, seg_len, spacing), r.out)

\* a resampler that never appends the endpoint
AppendEndpointNever(out, pts) == out

\* if out[-1] != pts[-1]: out.append(pts[-1])
AppendEndpoint(out, pts) ==
    LET last == out[Len(out)]
        end  == pts[Len(pts)]
    IN  IF last.x # end.x \/ last.y # end.y
        THEN Append(out, [x |-> end.x, y |-> end.y])
        ELSE out

resample_polyline(pts, spacing) ==
    IF Len(pts) < 2 THEN pts
    ELSE AppendEndpoint(
             WalkSegments(pts, spacing, 2, 0, <<[x |-> pts[1].x, y |-> pts[1].y]>>),
             pts)

(***************************************************************************)
(* Plan points                                                             *)
(*                                                                         *)
(* A plan point is the sample (x, y) it is built on, displaced by a signed *)
(* offset along the unit normal of the tangent t = (tx, ty):               *)
(*     (x/den, y/den) + off * (-ty, tx) / (hypot(tx, ty) or 1.0)           *)
(* The offset is kept as the exact expression the code evaluates:          *)
(*   f = "none": 0          f = "lin": num/den                             *)
(*   f = "sin":  sin(pn/pd) * num/den                                      *)
(*   f = "rip":  (0.5 + 0.5*sin(pn/pd)) * num/den                          *)
(***************************************************************************)

NoColor == "none"

NoOff == [f |-> "none", num |-> 0, den |-> 1, pn |-> 0, pd |-> 1]

Lin(num, den) == [f |-> "lin", num |-> num, den |-> den, pn |-> 0, pd |-> 1]

SinOff(f, num, den, pn, pd) == [f |-> f, num |-> num, den |-> den, pn |-> pn, pd |-> pd]

\* {"x": ..., "y": ..., "type": "stitch"}
StitchPt(b, off, t) ==
    [x |-> b.x, y |-> b.y, den |-> 1, type |-> "stitch", color |-> NoColor, off |-> off, t |-> t]

\* a layer marker that loses its color
ColorChangePtNoColor(x, y, den, color) ==
    [x |-> x, y |-> y, den |-> den, type |-> "color_change", color |-> NoColor,
     off |-> NoOff, t |-> <<0, 0>>]

\* {"x": ..., "y": ..., "type": "color_change", "color": color}
ColorChangePt(x, y, den, color) ==
    [x |-> x, y |-> y, den |-> den, type |-> "color_change", color |-> color,
     off |-> NoOff, t |-> <<0, 0>>]

\* a count that takes every point of the plan for a stitch
CountEveryPoint(pts) == Len(pts)

\* len([p for p in points if p.get("type") == "stitch"])
CountStitches(pts) == Len(SelectSeq(pts, LAMBDA p : p.type = "stitch"))

RECURSIVE Flatten(_)
\* concatenation of a sequence of sequences
Flatten(ss) == IF ss = <<>> THEN <<>> ELSE Head(ss) \o Flatten(Tail(ss))

(***************************************************************************)
(* tangent_at and the pattern strategies of generate_from_points           *)
(***************************************************************************)

\* tangent_at raises IndexError (points[1] of a one-element list) exactly then
TangentRaises(base) == Len(base) < 2

\* the difference vector tangent_at normalises (indices are 1-based here)
tangent_at(base, i) ==
    LET a == IF i <= 1 THEN base[1]
             ELSE IF i >= Len(base) THEN base[Len(base) - 1]
             ELSE base[i - 1]
        b == IF i <= 1 THEN base[2]
             ELSE IF i >= Len(base) THEN base[Len(base)]
             ELSE base[i + 1]
    IN  <<b.x - a.x, b.y - a.y>>

\* bands = max(1, int(max(2.0, width_px) // max(1.0, stitch_len_px)))
Bands(width_px, stitch_len_px) ==
    Max(1, Max(Px(2), width_px) \div Max(Px(1), stitch_len_px))

\* side after i samples: starts at 1.0, side *= -1.0 after every sample
SideAt(i) == IF i % 2 = 1 THEN 1 ELSE -1

OutlineStitches(base) == [i \in 1..Len(base) |-> StitchPt(base[i], NoOff, <<0, 0>>)]

SatinStitches(base, width_px, passes) ==
    LET P == Max(1, passes)
    IN  Flatten([i \in 1..Len(base) |->
            [pp \in 1..P |->
                \* off = (width_px * (1.0 - (pp / max(1, passes)))) * 0.5, times side
                StitchPt(base[i], Lin(SideAt(i) * width_px * (P - (pp - 1)), 2 * P),
                         tangent_at(base, i))]])

ZigzagStitches(base, width_px) ==
    [i \in 1..Len(base) |->
        StitchPt(base[i], Lin(SideAt(i) * width_px, 2), tangent_at(base, i))]

DoubleSatinStitches(base, width_px) ==
    Flatten([i \in 1..Len(base) |->
        <<StitchPt(base[i], Lin(width_px, 4), tangent_at(base, i)),
          StitchPt(base[i], Lin(-width_px, 2), tangent_at(base, i))>>])

\* freq = max(0.2, 2.0 / max(1.0, stitch_len_px)) as the fraction <<n, d>>
MeanderFreq(stitch_len_px) ==
    LET s == Max(Px(1), stitch_len_px)
    IN  IF 5 * 2 * UnitsPerPx >= s THEN <<2 * UnitsPerPx, s>> ELSE <<1, 5>>

MeanderStitches(base, width_px, stitch_len_px) ==
    LET fr == MeanderFreq(stitch_len_px)
    IN  [i \in 1..Len(base) |->
            StitchPt(base[i], SinOff("sin", width_px, 2, i * fr[1], fr[2]),
                     tangent_at(base, i))]

\* range(-bands, bands, step): the last offset index is left out
BandRangeHalfOpen(bands, step) ==
    [k \in 1..((2 * bands - 1) \div step + 1) |-> -bands + (k - 1) * step]

\* range(-bands, bands + 1, step)
BandRange(bands, step) ==
    [k \in 1..((2 * bands) \div step + 1) |-> -bands + (k - 1) * step]

BandStitches(base, width_px, stitch_len_px, step) ==
    LET bands == Bands(width_px, stitch_len_px)
        r == BandRange(bands, step)
    IN  Flatten([i \in 1..Len(base) |->
            [k \in 1..Len(r) |->
                \* off = (bi / max(1, bands)) * (width_px * 0.5)
                StitchPt(base[i], Lin(r[k] * width_px, 2 * Max(1, bands)),
                         tangent_at(base, i))]])

RippleStitches(base, width_px) ==
    [i \in 1..Len(base) |->
        StitchPt(base[i], SinOff("rip", width_px, 2, i, 2), tangent_at(base, i))]

Strategies ==
    {"outline", "satin", "zigzag", "double_satin", "meander", "contour", "ripple", "fill"}

\* a chain whose final else is the outline branch, as in svg_to_stitches
StrategyStitchesElseOutline(strategy, base, width_px, stitch_len_px, passes) ==
    CASE strategy = "satin"        -> SatinStitches(base, width_px, passes)
      [] strategy = "zigzag"       -> ZigzagStitches(base, width_px)
      [] strategy = "double_satin" -> DoubleSatinStitches(base, width_px)
      [] strategy = "meander"      -> MeanderStitches(base, width_px, stitch_len_px)
      [] strategy = "contour"      -> BandStitches(base, width_px, stitch_len_px, 2)
      [] strategy = "ripple"       -> RippleStitches(base, width_px)
      [] strategy = "fill"         -> BandStitches(base, width_px, stitch_len_px, 1)
      [] OTHER                     -> OutlineStitches(base)

\* the if / elif chain on req.strategy; the final else is the fill branch
StrategyStitches(strategy, base, width_px, stitch_len_px, passes) ==
    CASE strategy = "outline"      -> OutlineStitches(base)
      [] strategy = "satin"        -> SatinStitches(base, width_px, passes)
      [] strategy = "zigzag"       -> ZigzagStitches(base, width_px)
      [] strategy = "double_satin" -> DoubleSatinStitches(base, width_px)
      [] strategy = "meander"      -> MeanderStitches(base, width_px, stitch_len_px)
      [] strategy = "contour"      -> BandStitches(base, width_px, stitch_len_px, 2)
      [] strategy = "ripple"       -> RippleStitches(base, width_px)
      [] OTHER                     -> BandStitches(base, width_px, stitch_len_px, 1)

\* every branch but outline calls tangent_at for each sample
StrategyRaises(strategy, base) == strategy # "outline" /\ TangentRaises(base)

\* an early return that lets a single point through
TooFewPointsOffByOne(pts) == Len(pts) < 1

\* pts = req.points or []; if len(pts) < 2: return the empty plan
TooFewPoints(pts) == Len(pts) < 2

\* base = resample_polyline(pts, max(1.0, stitch_len_px))
ResampledBase(r) ==
    resample_polyline(r.points, SpacingPx(StitchLenPx(r.stitch_len_mm, r.mm_per_px, r.density)))

\* the response of generate_from_points as [status, points, info]
PlanFromPoints(r) ==
    IF TooFewPoints(r.points)
    THEN [status |-> 200, points |-> <<>>, info |-> [stitch_count |-> 0]]
    ELSE LET stitch_len_px == StitchLenPx(r.stitch_len_mm, r.mm_per_px, r.density)
             width_px == MmToPx(r.width_mm, r.mm_per_px)
             base == ResampledBase(r)
         IN  IF StrategyRaises(r.strategy, base)
             THEN [status |-> 500, points |-> <<>>, info |-> [stitch_count |-> 0]]
             ELSE LET plan_pts ==
                          <<ColorChangePt(base[1].x, base[1].y, 1, "#000000")>>
                          \o StrategyStitches(r.strategy, base, width_px, stitch_len_px, r.passes)
                  IN  [status |-> 200, points |-> plan_pts,
                       info |-> [stitch_count |-> CountStitches(plan_pts),
                                 strategy |-> r.strategy,
                                 mm_per_px |-> r.mm_per_px,
                                 stitch_len_mm |-> r.stitch_len_mm,
                                 width_mm |-> r.width_mm,
                                 passes |-> r.passes]]

(***************************************************************************)
(* svg_to_stitches                                                         *)
(*                                                                         *)
(* svgpathtools is a library: a parsed path is taken to be a horizontal    *)
(* line [x0, len, stroke, fill] starting at (x0, 0), so path.length() is   *)
(* len, path.point(k/n) is (x0 + k*len/n, 0), kept as the fraction         *)
(* (x0*n + k*len) / n, and path.derivative(t) is (len, 0).                 *)
(***************************************************************************)

NoAttr == "absent"

\* _parse_color: "#000000" for a missing or empty value, else the value
\* (s.strip() changes none of the values enumerated)
parse_color(s) == IF s = NoAttr \/ s = "" THEN "#000000" ELSE s

\* stitch_len_px of svg_to_stitches: always divided by max(0.25, density)
SvgStitchLenPx(stitch_len_mm, mm_per_px, density) ==
    (MmToPx(stitch_len_mm, mm_per_px) * Hundred) \div Max(25, density)

SvgStitchLenExact(stitch_len_mm, mm_per_px, density) ==
    /\ MmToPxExact(stitch_len_mm, mm_per_px)
    /\ (MmToPx(stitch_len_mm, mm_per_px) * Hundred) % Max(25, density) = 0

\* n = max(1, int(path.length(error=1e-3) // max(0.5, spacing)))
SampleCount(path, spacing) ==
    Max(1, (2 * path.len) \div Max(UnitsPerPx, 2 * spacing))

\* sample_path / sample_path_with_derivs: n + 1 points at t = k / n
sample_path(path, spacing) ==
    LET n == SampleCount(path, spacing)
    IN  [k \in 1..(n + 1) |-> [x |-> path.x0 * n + (k - 1) * path.len, y |-> 0, den |-> n]]

SvgStitchPt(b, off, t) ==
    [x |-> b.x, y |-> b.y, den |-> b.den, type |-> "stitch", color |-> NoColor,
     off |-> off, t |-> t]

\* the if / elif chain on strategy: outline, satin, fill, else outline again
SvgLayerPts(path, strategy, stitch_len_px, width_px, passes) ==
    LET base == sample_path(path, stitch_len_px)
        d == <<path.len, 0>>
        P == Max(1, passes)
        bands == Bands(width_px, stitch_len_px)
        r == BandRange(bands, 1)
    IN  CASE strategy = "satin" ->
                Flatten([i \in 1..Len(base) |->
                    [pp \in 1..P |->
                        SvgStitchPt(base[i],
                                    Lin(SideAt(i) * width_px * (P - (pp - 1)), 2 * P), d)]])
          [] strategy = "fill" ->
                Flatten([i \in 1..Len(base) |->
                    [k \in 1..Len(r) |->
                        SvgStitchPt(base[i], Lin(r[k] * width_px, 2 * Max(1, bands)), d)]])
          [] OTHER ->
                [i \in 1..Len(base) |-> SvgStitchPt(base[i], NoOff, <<0, 0>>)]

\* stroke or (fill or "#000000")
LayerColor(path) ==
    LET stroke == parse_color(path.stroke)
        fill == IF path.fill \notin {NoAttr, "none"} THEN parse_color(path.fill) ELSE NoAttr
    IN  IF stroke # "" THEN stroke ELSE IF fill # NoAttr THEN fill ELSE "#000000"

\* one iteration of "for i, p in enumerate(paths)": the points the path adds
SvgPathPoints(path, strategy, stitch_len_px, width_px, passes) ==
    IF path.len <= 0 THEN <<>>
    ELSE LET layer_pts == SvgLayerPts(path, strategy, stitch_len_px, width_px, passes)
         IN  IF layer_pts = <<>> THEN <<>>
             ELSE <<ColorChangePt(layer_pts[1].x, layer_pts[1].y, layer_pts[1].den,
                                  LayerColor(path))>> \o layer_pts

\* info["layers"]: index, count and color of every path that produced points
SvgLayers(paths, strategy, stitch_len_px, width_px, passes) ==
    LET idx == SelectSeq([i \in 1..Len(paths) |-> i], LAMBDA i : paths[i].len > 0)
    IN  [j \in 1..Len(idx) |->
            [index |-> idx[j] - 1,
             count |-> Len(SvgLayerPts(paths[idx[j]], strategy, stitch_len_px, width_px, passes)),
             color |-> LayerColor(paths[idx[j]])]]

\* svg_to_stitches as [status, points, info]; 501 without svgpathtools
svg_to_stitches(has_svg, r) ==
    IF ~has_svg
    THEN [status |-> 501, points |-> <<>>, info |-> [stitch_count |-> 0]]
    ELSE LET stitch_len_px == SvgStitchLenPx(r.stitch_len_mm, r.mm_per_px, r.density)
             width_px == MmToPx(r.width_mm, r.mm_per_px)
             pts == Flatten([i \in 1..Len(r.paths) |->
                        SvgPathPoints(r.paths[i], r.strategy, stitch_len_px, width_px, r.passes)])
         IN  [status |-> 200, points |-> pts,
              info |-> [stitch_count |-> CountStitches(pts),
                        layers |-> SvgLayers(r.paths, r.strategy, stitch_len_px, width_px, r.passes),
                        strategy |-> r.strategy,
                        mm_per_px |-> r.mm_per_px,
                        stitch_len_mm |-> r.stitch_len_mm,
                        width_mm |-> r.width_mm,
                        passes |-> r.passes]]

(***************************************************************************)
(* Machine codec: running_stitches_to_dst, parse_machine_file_to_plan      *)
(*                                                                         *)
(* pyembroidery is a library.  An EmbPattern is its list of stitches       *)
(* [x, y, flags].  The DST container is the sequence of records            *)
(* [dx, dy, flags] its writer emits: whole-pixel deltas from the position  *)
(* the reader will have accumulated; the reader stops at an END record.    *)
(* Deltas stay below the format's long-stitch limit in the requests        *)
(* enumerated, so no record is split.                                      *)
(***************************************************************************)

\* pyembroidery command codes (from pyembroidery import STITCH, JUMP, ...)
STITCH == 0

JUMP == 1

TRIM == 2

STOP == 3

END == 4

COLOR_CHANGE == 5

\* what a Python function returns when it falls off its end
None == "None"

RECURSIVE BitAnd(_, _)
\* a & b on non-negative integers
BitAnd(a, b) ==
    IF a = 0 \/ b = 0 THEN 0
    ELSE (a % 2) * (b % 2) + 2 * BitAnd(a \div 2, b \div 2)

\* the statements left after the return of running_stitches_to_dst, which no
\* call reaches: if flags & JUMP: return "jump" ... return "stitch"
FlagPriorityKind(flags) ==
    IF BitAnd(flags, JUMP) # 0 THEN "jump"
    ELSE IF BitAnd(flags, TRIM) # 0 THEN "trim"
    ELSE IF BitAnd(flags, COLOR_CHANGE) # 0 THEN "color_change"
    ELSE IF BitAnd(flags, STOP) # 0 THEN "stop"
    ELSE IF BitAnd(flags, END) # 0 THEN "end"
    ELSE "stitch"

\* the whole body of stitch_flags_to_str: the function ends after the
\* capability test, so with pyembroidery present it returns None
stitch_flags_to_str(has_py, flags) == IF ~has_py THEN "stitch" ELSE None

\* int(round(v)) of v units in pixels, Python rounding (halves to even)
RoundPx(v) ==
    LET q == v \div UnitsPerPx
        r == v % UnitsPerPx
    IN  IF 2 * r < UnitsPerPx THEN q
        ELSE IF 2 * r > UnitsPerPx THEN q + 1
        ELSE IF q % 2 = 0 THEN q ELSE q + 1

\* a pattern built without moving the first point to the origin
BuildPatternUntranslated(pts) ==
    LET n == Len(pts)
    IN  [i \in 1..n |-> [x |-> pts[i].x, y |-> pts[i].y, flags |-> STITCH]]
        \o <<[x |-> pts[n].x, y |-> pts[n].y, flags |-> END]>>

\* pattern.add_stitch_absolute(x - x0, y - y0, STITCH) for every point, then
\* pattern.end(): an END command at the last position
BuildPattern(pts) ==
    LET x0 == pts[1].x
        y0 == pts[1].y
        n == Len(pts)
    IN  [i \in 1..n |-> [x |-> pts[i].x - x0, y |-> pts[i].y - y0, flags |-> STITCH]]
        \o <<[x |-> pts[n].x - x0, y |-> pts[n].y - y0, flags |-> END]>>

RECURSIVE WriteRecords(_, _, _, _)
\* pyembroidery write(): dx = int(round(x - xx)); xx += dx, per stitch
WriteRecords(stitches, i, xx, yy) ==
    IF i > Len(stitches) THEN <<>>
    ELSE LET dx == RoundPx(stitches[i].x - Px(xx))
             dy == RoundPx(stitches[i].y - Px(yy))
         IN  <<[dx |-> dx, dy |-> dy, flags |-> stitches[i].flags]>>
             \o WriteRecords(stitches, i + 1, xx + dx, yy + dy)

\* the outcome of running_stitches_to_dst as [status, dst]: 501 without
\* pyembroidery, b"" for no points, else the written pattern
running_stitches_to_dst(has_py, pts) ==
    IF ~has_py THEN [status |-> 501, dst |-> <<>>]
    ELSE IF pts = <<>> THEN [status |-> 200, dst |-> <<>>]
    ELSE [status |-> 200, dst |-> WriteRecords(BuildPattern(pts), 1, 0, 0)]

RECURSIVE ReadRecords(_, _, _, _)
\* pyembroidery read(): accumulate the deltas; the END record is the last read
ReadRecords(recs, i, xx, yy) ==
    IF i > Len(recs) THEN <<>>
    ELSE LET x == xx + recs[i].dx
             y == yy + recs[i].dy
             st == [x |-> x, y |-> y, flags |-> recs[i].flags]
         IN  IF recs[i].flags = END THEN <<st>>
             ELSE <<st>> \o ReadRecords(recs, i + 1, x, y)

\* an uploaded file: its records, or a file pyembroidery cannot read
\* (read() returns None and pattern.stitches raises)
Unreadable == [readable |-> FALSE, records |-> <<>>]

\* {"x": float(x), "y": float(y), "type": stitch_flags_to_str(flags)}
DecodedPt(has_py, st) ==
    [x |-> Px(st.x), y |-> Px(st.y), den |-> 1, type |-> stitch_flags_to_str(has_py, st.flags),
     color |-> NoColor, off |-> NoOff, t |-> <<0, 0>>]

CountType(pts, ty) == Len(SelectSeq(pts, LAMBDA p : p.type = ty))

\* embroidery_plan around parse_machine_file_to_plan, as [status, points, info]:
\* 501 without pyembroidery, 500 when the file cannot be read
parse_machine_file_to_plan(has_py, data) ==
    IF ~has_py THEN [status |-> 501, points |-> <<>>, info |-> [stitch_count |-> 0]]
    ELSE IF ~data.readable
    THEN [status |-> 500, points |-> <<>>, info |-> [stitch_count |-> 0]]
    ELSE LET stitches == ReadRecords(data.records, 1, 0, 0)
             pts == [i \in 1..Len(stitches) |-> DecodedPt(has_py, stitches[i])]
         IN  [status |-> 200, points |-> pts,
              info |-> [stitch_count |-> CountType(pts, "stitch"),
                        jump_count |-> CountType(pts, "jump"),
                        trim_count |-> CountType(pts, "trim"),
                        color_changes |-> CountType(pts, "color_change")]]

(***************************************************************************)
(* optimize_stitch_sequence                                                *)
(***************************************************************************)

\* (first_point.x - last_point.x)**2 + (first_point.y - last_point.y)**2:
\* the code compares the square roots, which order as the squares do
Dist2(p, q) == (p.x - q.x) * (p.x - q.x) + (p.y - q.y) * (p.y - q.y)

\* float('inf')
Inf == -1

\* a comparison that lets a later group win a tie
CloserOrEqual(distance, min_distance) == min_distance = Inf \/ distance <= min_distance

\* distance < min_distance
CloserThan(distance, min_distance) == min_distance = Inf \/ distance < min_distance

RECURSIVE ScanRemaining(_, _, _, _, _)
\* for i, stitch in enumerate(remaining): keep the index of the closest start
ScanRemaining(remaining, last_point, i, closest_idx, min_distance) ==
    IF i > Len(remaining) THEN closest_idx
    ELSE IF remaining[i].points # <<>>
              /\ CloserThan(Dist2(remaining[i].points[1], last_point), min_distance)
         THEN ScanRemaining(remaining, last_point, i + 1, i,
                            Dist2(remaining[i].points[1], last_point))
         ELSE ScanRemaining(remaining, last_point, i + 1, closest_idx, min_distance)

\* remaining.pop(closest_idx): the list without that element
Without(seq, k) == [j \in 1..(Len(seq) - 1) |-> IF j < k THEN seq[j] ELSE seq[j + 1]]

RECURSIVE PlaceRemaining(_, _)
\* while remaining: ... optimized.append(remaining.pop(closest_idx))
PlaceRemaining(placed, remaining) ==
    IF remaining = <<>> THEN placed
    ELSE LET last_stitch == placed[Len(placed)]
             last_point == IF last_stitch.points # <<>>
                           THEN last_stitch.points[Len(last_stitch.points)]
                           ELSE [x |-> 0, y |-> 0]
             closest_idx == ScanRemaining(remaining, last_point, 1, 1, Inf)
         IN  PlaceRemaining(Append(placed, remaining[closest_idx]),
                            Without(remaining, closest_idx))

optimize_stitch_sequence(stitches) ==
    IF stitches = <<>> THEN stitches
    ELSE PlaceRemaining(<<stitches[1]>>, Tail(stitches))

(***************************************************************************)
(* calculate_total_length, calculate_efficiency_gain                       *)
(*                                                                         *)
(* The lengths are Python floats and their sum depends on the order of the *)
(* additions, so this part keeps the IEEE 754 binary64 arithmetic: a       *)
(* value v (0, or 1 <= v < 32) is the whole number v * 2^52, held as       *)
(* [hi, lo] with v * 2^52 = hi * Limb + lo.  In the binade                 *)
(* [2^k, 2^(k+1)) the representable values are the multiples of 2^k.       *)
(***************************************************************************)

\* 2^28
Limb == 268435456

DoubleZero == [hi |-> 0, lo |-> 0]

\* math.sqrt(d2) of the squared lengths that occur: 0.0, 1.0, 1.4142135623730951
SqrtDouble(d2) ==
    CASE d2 = 0 -> DoubleZero
      [] d2 = 1 -> [hi |-> 16777216, lo |-> 0]
      [] d2 = 2 -> [hi |-> 23726566, lo |-> 109001677]

RECURSIVE UlpOf(_)
\* the distance between neighbouring floats at this magnitude, in units of 2^-52
UlpOf(hi) == IF hi < 33554432 THEN 1 ELSE 2 * UlpOf(hi \div 2)

\* carry lo into hi
Normalised(hi, lo) == [hi |-> hi + lo \div Limb, lo |-> lo % Limb]

\* round to nearest representable value, ties to even
RoundToDouble(v) ==
    LET ulp == UlpOf(v.hi)
        r == v.lo % ulp
        q == v.lo - r
        up == 2 * r > ulp \/ (2 * r = ulp /\ (q \div ulp) % 2 = 1)
    IN  Normalised(v.hi, IF up THEN q + ulp ELSE q)

\* a + b in binary64
DoubleAdd(a, b) == RoundToDouble(Normalised(a.hi + b.hi, a.lo + b.lo))

\* a - b of two totals, in units of 2^-52; exact in binary64 for nearby values,
\* cut off at +-2^30 units
DoubleDiff(a, b) ==
    IF a.hi - b.hi > 3 THEN 4 * Limb
    ELSE IF b.hi - a.hi > 3 THEN -(4 * Limb)
    ELSE (a.hi - b.hi) * Limb + (a.lo - b.lo)

RECURSIVE SumSegments(_, _, _)
\* for i in range(len(points) - 1): total += math.sqrt(...)
SumSegments(pts, i, total) ==
    IF i >= Len(pts) THEN total
    ELSE SumSegments(pts, i + 1, DoubleAdd(total, SqrtDouble(Dist2(pts[i + 1], pts[i]))))

RECURSIVE SumGroupsWithTravel(_, _, _)
\* a total that also counts the travel from each group to the next
SumGroupsWithTravel(stitches, g, total) ==
    IF g > Len(stitches) THEN total
    ELSE LET prev == IF g > 1 THEN stitches[g - 1].points ELSE <<>>
             cur == stitches[g].points
             travel == IF prev # <<>> /\ cur # <<>>
                       THEN SqrtDouble(Dist2(cur[1], prev[Len(prev)]))
                       ELSE DoubleZero
         IN  SumGroupsWithTravel(stitches, g + 1, SumSegments(cur, 1, DoubleAdd(total, travel)))

calculate_total_lengthWithTravel(stitches) == SumGroupsWithTravel(stitches, 1, DoubleZero)

RECURSIVE SumGroups(_, _, _)
\* for stitch in stitches: ... the segments of stitch.get("points", [])
SumGroups(stitches, g, total) ==
    IF g > Len(stitches) THEN total
    ELSE SumGroups(stitches, g + 1, SumSegments(stitches[g].points, 1, total))

calculate_total_length(stitches) == SumGroups(stitches, 1, DoubleZero)

\* ((original_length - optimized_length) / original_length) * 100 if
\* original_length > 0 else 0, kept as the difference diff (units of 2^-52)
\* over original_length: the float is 0 exactly when diff is 0
calculate_efficiency_gain(original, optimized_stitches) ==
    LET original_length == calculate_total_length(original)
        optimized_length == calculate_total_length(optimized_stitches)
    IN  IF original_length # DoubleZero
        THEN [diff |-> DoubleDiff(original_length, optimized_length), of |-> original_length]
        ELSE [diff |-> 0, of |-> DoubleZero]

\* "optimization_stats" of the optimize-path response
OptimizationStats(stitches, optimized_stitches) ==
    [original_length |-> calculate_total_length(stitches),
     optimized_length |-> calculate_total_length(optimized_stitches),
     efficiency_gain |-> calculate_efficiency_gain(stitches, optimized_stitches)]

(***************************************************************************)
(* Requests                                                                *)
(***************************************************************************)

SeqsUpTo(S, n) == UNION {[1..k -> S] : k \in 0..n}

Vertices == {[x |-> Px(0), y |-> Px(0)], [x |-> Px(5), y |-> Px(0)], [x |-> Px(8), y |-> Px(0)]}

\* the straight horizontal polyline of 100 px
ScenarioLine == <<[x |-> Px(0), y |-> Px(0)], [x |-> Px(100), y |-> Px(0)]>>

\* a polyline with a corner and a vertical segment
CornerLine ==
    <<[x |-> Px(0), y |-> Px(0)], [x |-> Px(5), y |-> Px(0)], [x |-> Px(5), y |-> Px(5)]>>

Polylines ==
    {p \in SeqsUpTo(Vertices, MaxPts) \cup {ScenarioLine, CornerLine} : AxisParallel(p)}

\* "stippling" stands for every name outside the closed set
StrategyNames == Strategies \cup {"stippling"}

Densities == {100, 200, 250}

\* requests on the edges of the parameter ranges: zero and negative values,
\* densities at and below 0.25, a stitch length of half a pixel
EdgePolylines ==
    {<<[x |-> Px(0), y |-> Px(0)], [x |-> Px(5), y |-> Px(0)]>>,
     <<[x |-> Px(0), y |-> Px(0)], [x |-> Px(40), y |-> Px(0)]>>}

EdgePointsReqs ==
    [points : EdgePolylines, strategy : {"outline", "satin"}, density : {-100, 0, 10, 25, 100},
     width_mm : {200}, passes : {0, 1}, stitch_len_mm : {0, 13, 250}, mm_per_px : {0, 26}]

PointsReqs ==
    {r \in [points : Polylines, strategy : StrategyNames, density : Densities,
            width_mm : {200}, passes : {1, 2}, stitch_len_mm : {250}, mm_per_px : {26, 50}]
            \cup EdgePointsReqs :
        /\ StitchLenExact(r.stitch_len_mm, r.mm_per_px, r.density)
        /\ MmToPxExact(r.width_mm, r.mm_per_px)}

SvgPaths ==
    [x0 : {Px(10)}, len : {0, Px(25)}, stroke : {NoAttr, "#ff0000"}, fill : {"#00ff00"}]

\* the Query(..., gt=0) declarations of embroidery_generate
QueryValid(r) == r.mm_per_px > 0 /\ r.stitch_len_mm > 0 /\ r.density > 0

\* one stroked path, with parameters on the edges of their ranges
SvgEdgeReqs ==
    [paths : {<<[x0 |-> Px(10), len |-> Px(25), stroke |-> "#ff0000", fill |-> "#00ff00"]>>},
     strategy : {"outline", "fill"}, density : {10, 25, 100}, stitch_len_mm : {0, 10, 250},
     mm_per_px : {0, 26}, width_mm : {200}, passes : {1}, return_dst : {FALSE}]

SvgReqs ==
    {r \in [paths : SeqsUpTo(SvgPaths, MaxPaths),
            strategy : {"outline", "satin", "fill", "stippling"},
            density : {0, 100}, stitch_len_mm : {250}, mm_per_px : {26},
            width_mm : {200}, passes : {1}, return_dst : BOOLEAN]
            \cup SvgEdgeReqs :
        QueryValid(r) => SvgStitchLenExact(r.stitch_len_mm, r.mm_per_px, r.density)}

ExportPoints == [x : {Px(0), Px(5), 250}, y : {Px(0), Px(3)}, type : {"stitch", "jump"}]

ExportReqs == [points : SeqsUpTo(ExportPoints, MaxExportPts), format : {"dst", "pes"}]

Flags == {STITCH, JUMP, TRIM, STOP, END, COLOR_CHANGE}

Records == [dx : {3}, dy : {0, -2}, flags : Flags]

MachineFiles == [readable : {TRUE}, records : SeqsUpTo(Records, MaxRecords)] \cup {Unreadable}

GroupPoints ==
    {<<>>,
     <<[x |-> 0, y |-> 0]>>, <<[x |-> 1, y |-> 0]>>, <<[x |-> 0, y |-> 1]>>,
     <<[x |-> 0, y |-> 0], [x |-> 1, y |-> 0]>>,
     <<[x |-> 1, y |-> 0], [x |-> 0, y |-> 1]>>,
     <<[x |-> 0, y |-> 1], [x |-> 0, y |-> 0]>>}

\* every group carries its position in the request as its id
StitchGroups ==
    {[i \in 1..Len(g) |-> [id |-> i, points |-> g[i]]] : g \in SeqsUpTo(GroupPoints, MaxGroups)}

(***************************************************************************)
(* The service: one action per endpoint                                    *)
(***************************************************************************)

NoInfo == [stitch_count |-> 0]

\* no kind has been returned
NoKind == "-"

\* the response carries no optimization_stats
NoStats == <<>>

Init ==
    /\ hasPyembroidery \in BOOLEAN
    /\ hasSvgpathtools \in BOOLEAN
    /\ pc = "idle"
    /\ op = "none"
    /\ req = <<>>
    /\ status = 0
    /\ body = "none"
    /\ points = <<>>
    /\ info = NoInfo
    /\ dst = <<>>
    /\ optimized = <<>>
    /\ kind = NoKind
    /\ stats = NoStats

\* POST /embroidery/generate_from_points
embroidery_generate_from_points ==
    /\ pc = "idle"
    /\ \E r \in PointsReqs :
        LET out == PlanFromPoints(r)
        IN  /\ req' = r
            /\ status' = out.status
            /\ body' = IF out.status = 200 THEN "plan" ELSE "error"
            /\ points' = out.points
            /\ info' = out.info
    /\ op' = "generate_from_points"
    /\ pc' = "done"
    /\ dst' = <<>>
    /\ optimized' = <<>>
    /\ kind' = NoKind
    /\ stats' = NoStats
    /\ UNCHANGED <<hasPyembroidery, hasSvgpathtools>>

\* the response of embroidery_generate as [status, body, points, info, dst]
GenerateResponse(has_svg, has_py, r) ==
    IF ~QueryValid(r)
    THEN [status |-> 422, body |-> "error", points |-> <<>>, info |-> NoInfo, dst |-> <<>>]
    ELSE LET plan == svg_to_stitches(has_svg, r)
         IN  IF plan.status # 200
             THEN [status |-> plan.status, body |-> "error", points |-> <<>>, info |-> NoInfo,
                   dst |-> <<>>]
             ELSE IF ~r.return_dst
             THEN [status |-> 200, body |-> "plan", points |-> plan.points, info |-> plan.info,
                   dst |-> <<>>]
             ELSE LET enc == running_stitches_to_dst(has_py, plan.points)
                  IN  [status |-> enc.status,
                       body |-> IF enc.status = 200 THEN "dst" ELSE "error",
                       points |-> <<>>, info |-> NoInfo, dst |-> enc.dst]

\* POST /embroidery/generate
embroidery_generate ==
    /\ pc = "idle"
    /\ \E r \in SvgReqs :
        LET out == GenerateResponse(hasSvgpathtools, hasPyembroidery, r)
        IN  /\ req' = r
            /\ status' = out.status
            /\ body' = out.body
            /\ points' = out.points
            /\ info' = out.info
            /\ dst' = out.dst
    /\ op' = "generate"
    /\ pc' = "done"
    /\ optimized' = <<>>
    /\ kind' = NoKind
    /\ stats' = NoStats
    /\ UNCHANGED <<hasPyembroidery, hasSvgpathtools>>

\* POST /embroidery/plan
embroidery_plan ==
    /\ pc = "idle"
    /\ \E data \in MachineFiles :
        LET out == parse_machine_file_to_plan(hasPyembroidery, data)
        IN  /\ req' = [data |-> data]
            /\ status' = out.status
            /\ body' = IF out.status = 200 THEN "plan" ELSE "error"
            /\ points' = out.points
            /\ info' = out.info
    /\ op' = "plan"
    /\ pc' = "done"
    /\ dst' = <<>>
    /\ optimized' = <<>>
    /\ kind' = NoKind
    /\ stats' = NoStats
    /\ UNCHANGED <<hasPyembroidery, hasSvgpathtools>>

\* the response of embroidery_export_from_points as [status, dst]
ExportResponse(has_py, r) ==
    IF r.format # "dst" THEN [status |-> 400, dst |-> <<>>]
    ELSE running_stitches_to_dst(has_py, r.points)

\* POST /embroidery/export_from_points
embroidery_export_from_points ==
    /\ pc = "idle"
    /\ \E r \in ExportReqs :
        LET out == ExportResponse(hasPyembroidery, r)
        IN  /\ req' = r
            /\ status' = out.status
            /\ body' = IF out.status = 200 THEN "dst" ELSE "error"
            /\ dst' = out.dst
    /\ op' = "export_from_points"
    /\ pc' = "done"
    /\ points' = <<>>
    /\ info' = NoInfo
    /\ optimized' = <<>>
    /\ kind' = NoKind
    /\ stats' = NoStats
    /\ UNCHANGED <<hasPyembroidery, hasSvgpathtools>>

\* POST /ai/optimize-path
optimize_stitch_path ==
    /\ pc = "idle"
    /\ \E st \in StitchGroups :
        /\ req' = [stitches |-> st]
        /\ optimized' = optimize_stitch_sequence(st)
        /\ stats' = OptimizationStats(st, optimize_stitch_sequence(st))
    /\ op' = "optimize_path"
    /\ pc' = "done"
    /\ status' = 200
    /\ body' = "stitches"
    /\ points' = <<>>
    /\ info' = NoInfo
    /\ dst' = <<>>
    /\ kind' = NoKind
    /\ UNCHANGED <<hasPyembroidery, hasSvgpathtools>>

\* a call of stitch_flags_to_str(flags) on its own; the value it returns is kind
call_stitch_flags_to_str ==
    /\ pc = "idle"
    /\ \E flags \in Flags :
        /\ req' = [flags |-> flags]
        /\ kind' = stitch_flags_to_str(hasPyembroidery, flags)
    /\ op' = "stitch_flags_to_str"
    /\ pc' = "done"
    /\ status' = 200
    /\ body' = "kind"
    /\ points' = <<>>
    /\ info' = NoInfo
    /\ dst' = <<>>
    /\ optimized' = <<>>
    /\ stats' = NoStats
    /\ UNCHANGED <<hasPyembroidery, hasSvgpathtools>>

\* the response has been sent; the service waits for the next request
Respond ==
    /\ pc = "done"
    /\ pc' = "idle"
    /\ op' = "none"
    /\ req' = <<>>
    /\ status' = 0
    /\ body' = "none"
    /\ points' = <<>>
    /\ info' = NoInfo
    /\ dst' = <<>>
    /\ optimized' = <<>>
    /\ kind' = NoKind
    /\ stats' = NoStats
    /\ UNCHANGED <<hasPyembroidery, hasSvgpathtools>>

Next ==
    \/ embroidery_generate_from_points
    \/ embroidery_generate
    \/ embroidery_plan
    \/ embroidery_export_from_points
    \/ optimize_stitch_path
    \/ call_stitch_flags_to_str
    \/ Respond

Spec == Init /\ [][Next]_vars

(***************************************************************************)
(* Properties                                                              *)
(***************************************************************************)

Handled(name) == pc = "done" /\ op = name

StitchIndices(pts) == {i \in 1..Len(pts) : pts[i].type = "stitch"}

ColorChangeIndices(pts) == {i \in 1..Len(pts) : pts[i].type = "color_change"}

\* C1: every plan a handler returns (polyline synthesis, SVG path synthesis,
\* machine-file decode) has info.stitch_count equal to the number of its
\* points whose kind is Stitch.
C1_StitchCountIsNumberOfStitches ==
    (pc = "done" /\ body = "plan") =>
        info.stitch_count = Cardinality(StitchIndices(points))

\* a synthesized plan whose points are not all stitches
C1_Witness ==
    /\ Handled("generate") /\ body = "plan"
    /\ info.stitch_count > 0
    /\ Cardinality(ColorChangeIndices(points)) = 2

\* C3: polyline synthesis with 0 or 1 input points answers, under every
\* strategy name and parameter set, with a successful empty plan whose
\* stitch_count is 0.
C3_FewerThanTwoPointsGiveEmptyPlan ==
    (Handled("generate_from_points") /\ Len(req.points) < 2) =>
        /\ status = 200
        /\ body = "plan"
        /\ points = <<>>
        /\ info.stitch_count = 0

\* a single input point under a strategy that would need a tangent
C3_Witness ==
    /\ Handled("generate_from_points")
    /\ Len(req.points) = 1
    /\ req.strategy = "satin"
    /\ status = 200

\* C4: for the outline strategy on any polyline, all other parameters
\* fixed, a density d1 <= d2 never gives more stitches than d2: the plan of
\* the handled request has at least as many stitches as the plan of the same
\* request at any lower density.
C4_OutlineCountMonotoneInDensity ==
    (Handled("generate_from_points") /\ req.strategy = "outline" /\ status = 200) =>
        \A d1 \in Densities :
            (0 < d1 /\ d1 <= req.density
                /\ StitchLenExact(req.stitch_len_mm, req.mm_per_px, d1)) =>
            PlanFromPoints([req EXCEPT !.density = d1]).info.stitch_count <= info.stitch_count

\* the order a greedy nearest-neighbour pass gives: the first group stays
\* first, and every later place holds the remaining group whose first point
\* is nearest the last point placed, the earliest such group on a tie
IsGreedyOrder(stitches, out) ==
    /\ Len(out) = Len(stitches)
    /\ \A k \in 1..Len(out) :
        /\ out[k].id \in 1..Len(stitches)
        /\ out[k] = stitches[out[k].id]
    /\ Len(out) >= 1 => out[1].id = 1
    /\ \A k \in 2..Len(out) :
        LET placed == {out[j].id : j \in 1..(k - 1)}
            rest == (1..Len(stitches)) \ placed
            prev == out[k - 1].points
            last == prev[Len(prev)]
            c == out[k].id
        IN  /\ c \in rest
            /\ \A j \in rest :
                /\ Dist2(stitches[c].points[1], last) <= Dist2(stitches[j].points[1], last)
                /\ Dist2(stitches[c].points[1], last) = Dist2(stitches[j].points[1], last)
                       => c <= j

\* C5: for groups that each have at least one point, optimize_stitch_sequence
\* returns exactly the greedy nearest-neighbour ordering, ties going to the
\* group of earliest original index.
C5_OptimizerIsGreedyNearestNeighbour ==
    (Handled("optimize_path") /\ \A i \in 1..Len(req.stitches) : req.stitches[i].points # <<>>) =>
        IsGreedyOrder(req.stitches, optimized)

\* three non-empty groups, the third placed second
C5_Witness ==
    /\ Handled("optimize_path")
    /\ Len(req.stitches) = 3
    /\ \A i \in 1..3 : req.stitches[i].points # <<>>
    /\ optimized[2].id = 3

\* the color the layer of an SVG path carries: its stroke, black without one
StrokeColor(path) == IF path.stroke = NoAttr THEN "#000000" ELSE path.stroke

\* the paths of a request that have a length, in order
DrawnPaths(paths) == SelectSeq(paths, LAMBDA q : q.len > 0)

\* the indices of the color changes of a plan, in order
ColorChangeSeq(pts) ==
    SelectSeq([i \in 1..Len(pts) |-> i], LAMBDA i : pts[i].type = "color_change")

\* C6: in every synthesized plan each layer starts with exactly one
\* ColorChange carrying the layer color and everything after it, up to the
\* next ColorChange or the end, is a Stitch; a polyline plan of at least two
\* input points has exactly one ColorChange, its first element.
C6_LayerShape ==
    (pc = "done" /\ body = "plan" /\ op \in {"generate_from_points", "generate"}) =>
        /\ \A i \in 1..Len(points) : points[i].type \in {"color_change", "stitch"}
        /\ points # <<>> => points[1].type = "color_change"
        /\ \A i \in 1..Len(points) :
            IF points[i].type = "color_change"
            THEN /\ points[i].color # NoColor
                 /\ i < Len(points)
                 /\ points[i + 1].type = "stitch"
            ELSE points[i].color = NoColor
        /\ op = "generate" =>
            LET cc == ColorChangeSeq(points)
                drawn == DrawnPaths(req.paths)
            IN  /\ Len(cc) = Len(drawn)
                /\ \A k \in 1..Len(cc) : points[cc[k]].color = StrokeColor(drawn[k])
        /\ (op = "generate_from_points" /\ Len(req.points) >= 2) =>
            /\ ColorChangeIndices(points) = {1}
            /\ points[1].color = "#000000"

\* an SVG plan of two layers of different colors
C6_Witness ==
    /\ Handled("generate") /\ body = "plan"
    /\ Cardinality(ColorChangeIndices(points)) = 2
    /\ \E i, j \in ColorChangeIndices(points) : points[i].color # points[j].color

SamePlace(p, q) == p.x = q.x /\ p.y = q.y

\* C7: for a polyline of at least 2 points the samples of resample_polyline
\* begin with the first vertex and end with the last vertex, the last vertex
\* being appended only when the last sample does not already coincide with it
\* (the final sample is never duplicated); the last Stitch of an outline plan
\* is the input's endpoint.
C7_SamplesRunFromFirstToLastVertex ==
    (Handled("generate_from_points") /\ Len(req.points) >= 2) =>
        LET base == ResampledBase(req)
            n == Len(base)
            end == req.points[Len(req.points)]
            spacing == SpacingPx(StitchLenPx(req.stitch_len_mm, req.mm_per_px, req.density))
            emitted == WalkSegments(req.points, spacing, 2, 0,
                                    <<[x |-> req.points[1].x, y |-> req.points[1].y]>>)
        IN  /\ n >= 1
            /\ SamePlace(base[1], req.points[1])
            /\ SamePlace(base[n], end)
            /\ IF SamePlace(emitted[Len(emitted)], end)
               THEN base = emitted
               ELSE base = Append(emitted, [x |-> end.x, y |-> end.y])
            /\ req.strategy = "outline" =>
                /\ status = 200
                /\ points[Len(points)].type = "stitch"
                /\ SamePlace(points[Len(points)], end)

\* an outline plan whose last regular sample fell short of the endpoint
C7_Witness ==
    /\ Handled("generate_from_points")
    /\ req.strategy = "outline"
    /\ req.points = ScenarioLine
    /\ Len(points) >= 3
    /\ points[Len(points)].x = Px(100)
    /\ points[Len(points) - 1].x < Px(100)

\* C8: on a single segment of length L with effective spacing s the outline
\* strategy puts Stitch points at arc lengths k*s, k = 0..floor(L/s), and one
\* more at the endpoint exactly when floor(L/s)*s differs from L; the line of
\* 100 px at stitch_len_mm 2.5, mm_per_px 0.26, density 1.0 gets 11 points
\* 250/26 px (about 9.615 px) apart and the appended endpoint at x = 100.
C8_SingleSegmentOutline ==
    (Handled("generate_from_points") /\ req.strategy = "outline" /\ Len(req.points) = 2
        /\ ~SamePlace(req.points[1], req.points[2])) =>
        LET a == req.points[1]
            b == req.points[2]
            L == Abs(b.x - a.x) + Abs(b.y - a.y)
            s == SpacingPx(StitchLenPx(req.stitch_len_mm, req.mm_per_px, req.density))
            n == L \div s
            extra == IF n * s # L THEN 1 ELSE 0
            st == Tail(points)
        IN  /\ status = 200
            /\ \A i \in 1..Len(st) : st[i].type = "stitch" /\ st[i].off = NoOff
            /\ Len(st) = n + 1 + extra
            /\ \A k \in 0..n :
                /\ st[k + 1].x = a.x + Sign(b.x - a.x) * k * s
                /\ st[k + 1].y = a.y + Sign(b.y - a.y) * k * s
            /\ extra = 1 => SamePlace(st[n + 2], b)
            /\ (req.points = ScenarioLine /\ req.stitch_len_mm = 250 /\ req.mm_per_px = 26
                    /\ req.density = 100) =>
                /\ s = 250
                /\ n = 10
                /\ info.stitch_count = 12
                /\ st[12].x = Px(100)

\* the 100 px scenario
C8_Witness ==
    /\ Handled("generate_from_points")
    /\ req.strategy = "outline"
    /\ req.points = ScenarioLine
    /\ req.stitch_len_mm = 250 /\ req.mm_per_px = 26 /\ req.density = 100
    /\ info.stitch_count = 12

\* the plan the decoder gives for a container
Decoded(container) ==
    parse_machine_file_to_plan(hasPyembroidery, [readable |-> TRUE, records |-> container])

\* C2: decoding the encoding of a stitch sequence reproduces every point's
\* absolute coordinates and every point's command kind.
C2_RoundTripKeepsCoordinatesAndKinds ==
    (Handled("export_from_points") /\ body = "dst") =>
        LET back == Decoded(dst)
        IN  /\ back.status = 200
            /\ Len(back.points) = Len(req.points)
            /\ \A i \in 1..Len(req.points) :
                /\ back.points[i].x = req.points[i].x
                /\ back.points[i].y = req.points[i].y
                /\ back.points[i].type = req.points[i].type

CommandKinds == {"stitch", "jump", "trim", "color_change", "stop", "end"}

\* C9: the kind of every decoded record is fixed by its flag bits in the
\* priority Jump > Trim > ColorChange > Stop > End > Stitch, so every decoded
\* point has one of these six kinds.
C9_DecodedKindFollowsFlagPriority ==
    (Handled("plan") /\ body = "plan") =>
        /\ Len(points) <= Len(req.data.records)
        /\ \A i \in 1..Len(points) :
            /\ points[i].type = FlagPriorityKind(req.data.records[i].flags)
            /\ points[i].type \in CommandKinds

\* the positions a reader accumulates from the deltas of a container
RECURSIVE Accumulate(_, _, _, _)
Accumulate(recs, i, xx, yy) ==
    IF i > Len(recs) THEN <<>>
    ELSE <<[x |-> xx + recs[i].dx, y |-> yy + recs[i].dy]>>
         \o Accumulate(recs, i + 1, xx + recs[i].dx, yy + recs[i].dy)

\* one delta record per point, the first point at the origin, then an End
\* record: the deltas add up to each point's place relative to the first, in
\* the whole pixels of the container
IsTranslatedDeltaContainer(container, pts) ==
    /\ Len(container) = Len(pts) + 1
    /\ container[Len(container)].flags = END
    /\ \A i \in 1..Len(pts) : container[i].flags # END
    /\ pts # <<>> =>
        LET at == Accumulate(container, 1, 0, 0)
        IN  /\ at[1] = [x |-> 0, y |-> 0]
            /\ \A i \in 1..Len(pts) :
                /\ at[i].x = RoundPx(pts[i].x - pts[1].x)
                /\ at[i].y = RoundPx(pts[i].y - pts[1].y)

NeedsCodec ==
    \/ Handled("plan")
    \/ Handled("stitch_flags_to_str")
    \/ Handled("export_from_points") /\ req.format = "dst"
    \/ Handled("generate") /\ QueryValid(req) /\ hasSvgpathtools /\ req.return_dst

\* the operation handled needs svgpathtools: SVG path synthesis
NeedsPathParsing == Handled("generate") /\ QueryValid(req)

\* the response is the error with this status code and carries no result
SignalsOnly(code) ==
    /\ status = code
    /\ body = "error"
    /\ points = <<>>
    /\ dst = <<>>
    /\ kind = NoKind

\* C11: when the capability an operation needs is unavailable (pyembroidery
\* for encode, decode and the flag-to-kind mapping, svgpathtools for SVG path
\* synthesis), the operation signals UnsupportedCapability (501) and returns
\* no substituted result; a machine file that cannot be read is signalled
\* with a different code, MalformedInput (500).
C11_MissingCapabilityIsSignalled ==
    /\ (NeedsCodec /\ ~hasPyembroidery) => SignalsOnly(501)
    /\ (NeedsPathParsing /\ ~hasSvgpathtools) => SignalsOnly(501)
    /\ (Handled("plan") /\ hasPyembroidery /\ ~req.data.readable) => SignalsOnly(500)

\* mm_per_px > 0, stitch_len_mm > 0, density > 0, passes >= 1
ParamsValid(r) == r.mm_per_px > 0 /\ r.stitch_len_mm > 0 /\ r.density > 0 /\ r.passes >= 1

\* C12: a request to either synthesis entry point (polyline, SVG path) whose
\* parameters violate mm_per_px > 0, stitch_len_mm > 0, density > 0 or
\* passes >= 1 is answered with an InvalidParameter error and no plan.
C12_InvalidParametersAreRejected ==
    ((Handled("generate_from_points") \/ Handled("generate")) /\ ~ParamsValid(req)) =>
        /\ status \in {400, 422}
        /\ body = "error"
        /\ points = <<>>

RECURSIVE TotalLength(_, _)
\* the arc length of the polyline from vertex i - 1 to its end
TotalLength(pts, i) ==
    IF i > Len(pts) THEN 0
    ELSE Hypot(pts[i].x - pts[i-1].x, pts[i].y - pts[i-1].y) + TotalLength(pts, i + 1)

RECURSIVE PointAtArc(_, _, _)
\* the point at arc length a past vertex i - 1, walking along the polyline
PointAtArc(pts, i, a) ==
    IF a = 0 \/ i > Len(pts) THEN [x |-> pts[i-1].x, y |-> pts[i-1].y]
    ELSE LET dx == pts[i].x - pts[i-1].x
             dy == pts[i].y - pts[i-1].y
             seg_len == Hypot(dx, dy)
         IN  IF a > seg_len THEN PointAtArc(pts, i + 1, a - seg_len)
             ELSE [x |-> pts[i-1].x + Sign(dx) * a, y |-> pts[i-1].y + Sign(dy) * a]

\* the samples at arc lengths 0, spacing, 2 * spacing, ... of the polyline
EvenSamples(pts, spacing) ==
    [k \in 1..(TotalLength(pts, 2) \div spacing + 1) |-> PointAtArc(pts, 2, (k - 1) * spacing)]

\* the positions of the stitches of a plan
StitchPositions(pts) ==
    LET st == SelectSeq(pts, LAMBDA q : q.type = "stitch")
    IN  [i \in 1..Len(st) |-> [x |-> st[i].x, y |-> st[i].y]]

\* C13: the resampler emits a sample each time the arc length walked along
\* the polyline since the previous sample reaches the spacing, the leftover
\* length being carried across vertices: the samples of an outline plan,
\* other than the appended endpoint, lie at arc lengths 0, spacing,
\* 2 * spacing, ... along the polyline, also where every segment is shorter
\* than the spacing.
C13_SamplesAreSpacingApartAlongPolyline ==
    (Handled("generate_from_points") /\ status = 200 /\ req.strategy = "outline"
        /\ Len(req.points) >= 2) =>
        LET spacing == SpacingPx(StitchLenPx(req.stitch_len_mm, req.mm_per_px, req.density))
        IN  StitchPositions(points) = AppendEndpoint(EvenSamples(req.points, spacing), req.points)

\* (stitch_len_mm / mm_per_px) / max(0.25, density), for valid parameters
ClaimedSpacing(r) ==
    (r.stitch_len_mm * UnitsPerPx * Hundred) \div (r.mm_per_px * Max(25, r.density))

\* the request of a returned plan that samples along the input as it is:
\* an outline plan of the polyline, or an SVG plan without satin or fill
OutlineOfPolyline ==
    /\ Handled("generate_from_points") /\ status = 200
    /\ ParamsValid(req) /\ req.strategy = "outline" /\ Len(req.points) >= 2

OutlineOfSvg ==
    /\ Handled("generate") /\ body = "plan"
    /\ ParamsValid(req) /\ req.strategy \notin {"satin", "fill"}

\* every layer of the SVG plan has floor(length / step) + 1 samples, at least 2
SvgSampledEvery(step2) ==
    \A j \in 1..Len(info.layers) :
        info.layers[j].count = Max(1, (2 * req.paths[info.layers[j].index + 1].len) \div step2) + 1

\* C14 as stated: for every valid parameter set both entry points resample
\* at the spacing (stitch_len_mm / mm_per_px) / max(0.25, density), with no
\* further clamping.
C14_SpacingIsNeverClamped ==
    /\ OutlineOfPolyline =>
          StitchPositions(points) = resample_polyline(req.points, ClaimedSpacing(req))
    /\ OutlineOfSvg => SvgSampledEvery(2 * ClaimedSpacing(req))

\* C14 amended: for every valid parameter set polyline synthesis resamples at
\* max(1 px, (stitch_len_mm / mm_per_px) / max(0.25, density)) and SVG path
\* synthesis samples every max(0.5 px, the same quotient); a density in
\* (0, 0.25] gives the plan that density 0.25 gives.
C14_SpacingIsClampedFromBelow ==
    /\ OutlineOfPolyline =>
          StitchPositions(points) =
              resample_polyline(req.points, Max(Px(1), ClaimedSpacing(req)))
    /\ OutlineOfSvg => SvgSampledEvery(Max(UnitsPerPx, 2 * ClaimedSpacing(req)))
    /\ (Handled("generate_from_points") /\ ParamsValid(req) /\ req.density <= 25) =>
          points = PlanFromPoints([req EXCEPT !.density = 25]).points
    /\ (Handled("generate") /\ body = "plan" /\ ParamsValid(req) /\ req.density <= 25) =>
          points = svg_to_stitches(hasSvgpathtools, [req EXCEPT !.density = 25]).points

\* a stitch length of half a pixel on a 5 px line: six samples, 1 px apart
C14_Witness ==
    /\ OutlineOfPolyline
    /\ ClaimedSpacing(req) < Px(1)
    /\ Len(req.points) = 2 /\ req.points[2].x = Px(5)
    /\ info.stitch_count = 6

\* bands = max(1, floor(max(2, width_px) / max(1, spacing_px)))
ClaimedBands(r) ==
    Max(1, Max(Px(2), MmToPx(r.width_mm, r.mm_per_px))
               \div Max(Px(1), StitchLenPx(r.stitch_len_mm, r.mm_per_px, r.density)))

\* stitches per sample of each of the eight strategies
StitchesPerSample(r) ==
    CASE r.strategy \in {"outline", "zigzag", "meander", "ripple"} -> 1
      [] r.strategy = "satin"        -> Max(1, r.passes)
      [] r.strategy = "double_satin" -> 2
      [] r.strategy = "fill"         -> 2 * ClaimedBands(r) + 1
      [] r.strategy = "contour"      -> ClaimedBands(r) + 1

\* the fill scenario: width_mm 2.0, mm_per_px 0.26, stitch_len_mm 2.5, density 1.0
FillScenario(r) ==
    /\ r.strategy = "fill" /\ r.width_mm = 200 /\ r.mm_per_px = 26
    /\ r.stitch_len_mm = 250 /\ r.density = 100

\* C15: a plan polyline synthesis returns under one of the eight strategies
\* has (number of resampled samples) * (stitches per sample) Stitch points:
\* 1 per sample for outline, zigzag, meander and ripple, max(1, passes) for
\* satin, 2 for double_satin, 2*bands + 1 for fill and bands + 1 for contour;
\* in the fill scenario bands is 1 and every sample gives 3 stitches.
C15_StitchesPerSample ==
    (Handled("generate_from_points") /\ status = 200 /\ Len(req.points) >= 2
        /\ req.strategy \in Strategies) =>
        /\ Cardinality(StitchIndices(points)) = Len(ResampledBase(req)) * StitchesPerSample(req)
        /\ FillScenario(req) =>
              /\ ClaimedBands(req) = 1
              /\ Cardinality(StitchIndices(points)) = 3 * Len(ResampledBase(req))

\* the fill scenario on the 100 px line: 12 samples, 36 stitches
C15_Witness ==
    /\ Handled("generate_from_points") /\ status = 200
    /\ FillScenario(req)
    /\ req.points = ScenarioLine
    /\ Cardinality(StitchIndices(points)) = 36

\* the handled request with its strategy replaced
ReqAs(name) == [req EXCEPT !.strategy = name]

\* a returned plan of either synthesis entry point for a name outside the eight
UnrecognizedInPolyline == Handled("generate_from_points") /\ req.strategy \notin Strategies

UnrecognizedInSvg == Handled("generate") /\ body = "plan" /\ req.strategy \notin Strategies

\* C16 as stated: in both synthesis entry points the plan for a strategy name
\* outside the eight equals, point for point, the plan for "fill" on the same
\* input and parameters.
C16_UnrecognizedIsFillEverywhere ==
    /\ UnrecognizedInPolyline =>
          /\ status = PlanFromPoints(ReqAs("fill")).status
          /\ points = PlanFromPoints(ReqAs("fill")).points
    /\ UnrecognizedInSvg => points = svg_to_stitches(hasSvgpathtools, ReqAs("fill")).points

\* C16 amended: for a strategy name outside the eight, polyline synthesis
\* returns point for point the plan it returns for "fill", and SVG path
\* synthesis returns point for point the plan it returns for "outline".
C16_UnrecognizedIsFillOrOutline ==
    /\ UnrecognizedInPolyline =>
          /\ status = PlanFromPoints(ReqAs("fill")).status
          /\ points = PlanFromPoints(ReqAs("fill")).points
          /\ info.stitch_count = PlanFromPoints(ReqAs("fill")).info.stitch_count
    /\ UnrecognizedInSvg =>
          /\ points = svg_to_stitches(hasSvgpathtools, ReqAs("outline")).points
          /\ info.stitch_count = svg_to_stitches(hasSvgpathtools, ReqAs("outline")).info.stitch_count

\* an SVG plan for an unrecognized name that is not the fill plan
C16_Witness ==
    /\ UnrecognizedInSvg
    /\ info.stitch_count > 0
    /\ points # svg_to_stitches(hasSvgpathtools, ReqAs("fill")).points

\* C17: for every polyline of at least two points, polylines whose points
\* all coincide included, polyline synthesis completes and returns a plan
\* under every strategy name; no strategy fails while computing a tangent.
C17_EveryPolylineGetsAPlan ==
    (Handled("generate_from_points") /\ Len(req.points) >= 2) =>
        /\ status = 200
        /\ body = "plan"
        /\ info.stitch_count >= 1

\* how many segments of squared length d2 the groups hold
SegmentCount(stitches, d2) ==
    Cardinality({<<g, i>> \in (1..Len(stitches)) \X (1..2) :
        /\ i < Len(stitches[g].points)
        /\ Dist2(stitches[g].points[i + 1], stitches[g].points[i]) = d2})

\* the statistics of a successful optimize-path response
OptimizedWithStats == Handled("optimize_path") /\ status = 200

\* C18 as stated: calculate_total_length sums only the distances inside each
\* group, so for every input the statistics report optimized_length equal to
\* original_length and an efficiency_gain of 0.
C18_StatsNeverChange ==
    OptimizedWithStats =>
        /\ stats.optimized_length = stats.original_length
        /\ stats.efficiency_gain.diff = 0

\* C18 amended: calculate_total_length adds only the distances inside each
\* group, in the order of the groups, so both lengths are floating-point sums
\* of the same segments: optimized_length differs from original_length by
\* less than 2^-40, efficiency_gain is 0 exactly when they are equal, and
\* they are equal whenever every segment length is a whole number.
C18_StatsChangeOnlyByRounding ==
    OptimizedWithStats =>
        LET d == DoubleDiff(stats.original_length, stats.optimized_length)
        IN  /\ \A d2 \in {1, 2} : SegmentCount(optimized, d2) = SegmentCount(req.stitches, d2)
            /\ Abs(d) < 4096
            /\ stats.efficiency_gain.diff = 0 <=> d = 0
            /\ SegmentCount(req.stitches, 2) = 0 => d = 0

\* sqrt(2) + sqrt(2) + 1 against sqrt(2) + 1 + sqrt(2): the groups
\* (1,0)-(0,1), (1,0)-(0,1), (0,1)-(0,0) leave in the order 1, 3, 2
C18_Witness ==
    /\ OptimizedWithStats
    /\ Len(optimized) = 3 /\ optimized[2].id = 3
    /\ stats.original_length = [hi |-> 64230348, lo |-> 218003354]
    /\ stats.optimized_length = [hi |-> 64230348, lo |-> 218003352]
    /\ stats.efficiency_gain.diff = 2

====
